---- MODULE Spec2Model ----
(***************************************************************************)
(* Bottom-up merge sort of a singly linked list of cons cells,            *)
(* dailycodingproblem_com/p169_sort_linked_list.py.                       *)
(*                                                                         *)
(* A cell is a number 1..k; cell i is the i-th cell built by              *)
(* to_linked_list, so a cell's number is also its position in the input.  *)
(* None is 0.  value is read from seq (a cell's value is never assigned   *)
(* after construction), tail is the heap of tail fields.                  *)
(***************************************************************************)
EXTENDS Integers, Sequences, FiniteSets

\* Bounds of the checked inputs.
MaxLen == 5
MaxVal == 3
MaxRun == 2

None == 0

\* The worked example of the module docstring.
DocExample == <<5, 3, 4, 1, 2>>

VARIABLES
    seq,                \* the values of the cells, by cell
    total,              \* TRUE: every comparison of two values succeeds
    tail,               \* Cons.tail of every cell
    pc,                 \* position in the code
    llist,              \* sort_linked_list: llist
    n,                  \* sort_linked_list: n
    merge_len,          \* sort_linked_list: merge_len
    next_unmerged_cell, \* sort_linked_list: next_unmerged_cell
    last_cell,          \* sort_linked_list: last_cell
    sublist_a,          \* sort_linked_list / merge: sublist_a
    sublist_b,          \* sort_linked_list / merge: sublist_b
    merged_first_cell,  \* sort_linked_list: merged_first_cell
    merged_last_cell,   \* sort_linked_list: merged_last_cell
    len_llist,          \* llist_len: llist
    len_n,              \* llist_len: n
    take_llist,         \* take: llist
    take_n,             \* take: n
    take_start,         \* take: sublist.start
    cell_a,             \* merge_sequence: cell_a
    cell_b,             \* merge_sequence: cell_b
    m_first_cell,       \* merge: first_cell
    m_last_cell,        \* merge: last_cell
    run_a,              \* the cells sublist_a identified when merge was called
    run_b,              \* the cells sublist_b identified when merge was called
    passes,             \* number of iterations of the outer loop started
    writes              \* number of assignments to a tail field

vars == <<seq, total, tail, pc, llist, n, merge_len, next_unmerged_cell,
          last_cell, sublist_a, sublist_b, merged_first_cell,
          merged_last_cell, len_llist, len_n, take_llist, take_n, take_start,
          cell_a, cell_b, m_first_cell, m_last_cell, run_a, run_b, passes,
          writes>>

sortVars == <<llist, n, merge_len, next_unmerged_cell, last_cell, passes>>
lenVars == <<len_llist, len_n>>
takeVars == <<take_llist, take_n, take_start>>
mergeVars == <<cell_a, cell_b, m_first_cell, m_last_cell>>
resultVars == <<merged_first_cell, merged_last_cell>>
heapVars == <<tail, writes>>
inputVars == <<seq, total>>

----------------------------------------------------------------------------
\* Data

Cells == 1..Len(seq)

value(c) == seq[c]

Sublist(start, end) == [start |-> start, end |-> end]

\* The cells met from c following tail in heap t, at most fuel of them.
RECURSIVE Walk(_, _, _)
Walk(t, c, fuel) ==
    IF c = None \/ fuel = 0 THEN <<>>
    ELSE <<c>> \o Walk(t, t[c], fuel - 1)

\* The cells met from c up to but not including end, at most fuel of them.
RECURSIVE WalkTo(_, _, _, _)
WalkTo(t, c, end, fuel) ==
    IF c = end \/ c = None \/ fuel = 0 THEN <<>>
    ELSE <<c>> \o WalkTo(t, t[c], end, fuel - 1)

\* One more step than there are cells: a chain this long has met a cell twice.
Fuel == Len(seq) + 1

Chain(c) == Walk(tail, c, Fuel)

SublistCells(s) == WalkTo(tail, s.start, s.end, Fuel)

Range(s) == {s[i] : i \in 1..Len(s)}

Values(cells) == [i \in 1..Len(cells) |-> value(cells[i])]

\* from_linked_list: the values met from llist until None.
from_linked_list(l) == Values(Chain(l))

\* to_linked_list: cell i has tail i + 1, the last cell has tail None.
to_linked_list_tail(s) == [c \in 1..Len(s) |-> IF c = Len(s) THEN None ELSE c + 1]

to_linked_list_head(s) == IF Len(s) = 0 THEN None ELSE 1

\* sorted(sequence), by insertion.
RECURSIVE Insert(_, _)
Insert(x, s) ==
    IF s = <<>> THEN <<x>>
    ELSE IF x <= Head(s) THEN <<x>> \o s
    ELSE <<Head(s)>> \o Insert(x, Tail(s))

RECURSIVE sorted(_)
sorted(s) == IF s = <<>> THEN <<>> ELSE Insert(Head(s), sorted(Tail(s)))

NonDecreasing(s) == \A i \in 1..(Len(s) - 1) : s[i] <= s[i + 1]

Count(s, x) == Cardinality({i \in 1..Len(s) : s[i] = x})

IsPermutation(s, t) ==
    /\ Len(s) = Len(t)
    /\ \A x \in Range(s) \cup Range(t) : Count(s, x) = Count(t, x)

RECURSIVE Pow2(_)
Pow2(k) == IF k = 0 THEN 1 ELSE 2 * Pow2(k - 1)

CeilLog2(m) == CHOOSE k \in 0..m : Pow2(k) >= m /\ (k = 0 \/ Pow2(k - 1) < m)

RECURSIVE SeqsUpTo(_, _)
SeqsUpTo(S, k) ==
    IF k = 0 THEN {<<>>}
    ELSE LET shorter == SeqsUpTo(S, k - 1)
         IN  shorter \cup {Append(s, x) : s \in {r \in shorter : Len(r) = k - 1}, x \in S}

Inputs == SeqsUpTo(1..MaxVal, MaxLen) \cup {DocExample}

----------------------------------------------------------------------------
\* Initial state: test() builds the list and calls sort_linked_list on it.

Init ==
    /\ seq \in Inputs
    /\ total \in BOOLEAN
    /\ tail = to_linked_list_tail(seq)
    /\ llist = to_linked_list_head(seq)
    /\ pc = "llist_len"
    /\ len_llist = to_linked_list_head(seq)
    /\ len_n = 0
    /\ n = 0
    /\ merge_len = 0
    /\ next_unmerged_cell = None
    /\ last_cell = None
    /\ sublist_a = Sublist(None, None)
    /\ sublist_b = Sublist(None, None)
    /\ merged_first_cell = None
    /\ merged_last_cell = None
    /\ take_llist = None
    /\ take_n = 0
    /\ take_start = None
    /\ cell_a = None
    /\ cell_b = None
    /\ m_first_cell = None
    /\ m_last_cell = None
    /\ run_a = <<>>
    /\ run_b = <<>>
    /\ passes = 0
    /\ writes = 0

----------------------------------------------------------------------------
\* llist_len

LlistLenStep ==
    /\ pc = "llist_len"
    /\ len_llist # None
    /\ len_n' = len_n + 1
    /\ len_llist' = tail[len_llist]
    /\ UNCHANGED <<pc, inputVars, heapVars, sortVars, sublist_a, sublist_b,
                   resultVars, takeVars, mergeVars, run_a, run_b>>

\* Variant: the early return gives back nothing instead of the list.
LlistLenReturnDropsList ==
    /\ pc = "llist_len"
    /\ len_llist = None
    /\ n' = len_n
    /\ IF len_n < 2
       THEN /\ pc' = "done"
            /\ llist' = None
            /\ UNCHANGED merge_len
       ELSE /\ pc' = "outer"
            /\ merge_len' = 1
            /\ UNCHANGED llist
    /\ UNCHANGED <<inputVars, heapVars, next_unmerged_cell, last_cell,
                   passes, sublist_a, sublist_b, resultVars, lenVars,
                   takeVars, mergeVars, run_a, run_b>>

\* llist_len returns; lists of length less than 2 are returned as they are.
LlistLenReturn ==
    /\ pc = "llist_len"
    /\ len_llist = None
    /\ n' = len_n
    /\ IF len_n < 2
       THEN /\ pc' = "done"
            /\ UNCHANGED merge_len
       ELSE /\ pc' = "outer"
            /\ merge_len' = 1
    /\ UNCHANGED <<inputVars, heapVars, llist, next_unmerged_cell, last_cell,
                   passes, sublist_a, sublist_b, resultVars, lenVars,
                   takeVars, mergeVars, run_a, run_b>>

----------------------------------------------------------------------------
\* sort_linked_list: the outer loop

\* Variant: the loop stops one pass early.
OuterTestEarly == merge_len * 2 < n

OuterTest == merge_len < n

StartPass ==
    /\ pc = "outer"
    /\ OuterTest
    /\ next_unmerged_cell' = llist
    /\ last_cell' = None
    /\ llist' = None
    /\ passes' = passes + 1
    /\ pc' = "inner"
    /\ UNCHANGED <<inputVars, heapVars, n, merge_len, sublist_a, sublist_b,
                   resultVars, lenVars, takeVars, mergeVars, run_a, run_b>>

Return ==
    /\ pc = "outer"
    /\ ~OuterTest
    /\ pc' = "done"
    /\ UNCHANGED <<inputVars, heapVars, sortVars, sublist_a, sublist_b,
                   resultVars, lenVars, takeVars, mergeVars, run_a, run_b>>

\* The inner loop's test fails: the pass is over, merge_len doubles.
EndPass ==
    /\ pc = "inner"
    /\ next_unmerged_cell = None
    /\ merge_len' = merge_len * 2
    /\ pc' = "outer"
    /\ UNCHANGED <<inputVars, heapVars, llist, n, next_unmerged_cell,
                   last_cell, passes, sublist_a, sublist_b, resultVars,
                   lenVars, takeVars, mergeVars, run_a, run_b>>

----------------------------------------------------------------------------
\* take

\* sublist_a = take(next_unmerged_cell, merge_len) is called.
CallTakeA ==
    /\ pc = "inner"
    /\ next_unmerged_cell # None
    /\ take_start' = next_unmerged_cell
    /\ take_llist' = next_unmerged_cell
    /\ take_n' = merge_len
    /\ pc' = "take_a"
    /\ UNCHANGED <<inputVars, heapVars, sortVars, sublist_a, sublist_b,
                   resultVars, lenVars, mergeVars, run_a, run_b>>

TakeTest == take_n # 0 /\ take_llist # None

\* Variant: the loop of take forgets to move to the tail.
TakeStepNoAdvance ==
    /\ pc \in {"take_a", "take_b"}
    /\ TakeTest
    /\ take_n' = take_n - 1
    /\ UNCHANGED <<pc, take_llist, take_start, inputVars, heapVars, sortVars,
                   sublist_a, sublist_b, resultVars, lenVars, mergeVars,
                   run_a, run_b>>

TakeStep ==
    /\ pc \in {"take_a", "take_b"}
    /\ TakeTest
    /\ take_n' = take_n - 1
    /\ take_llist' = tail[take_llist]
    /\ UNCHANGED <<pc, take_start, inputVars, heapVars, sortVars, sublist_a,
                   sublist_b, resultVars, lenVars, mergeVars, run_a, run_b>>

\* take returns sublist_a; sublist_b = take(sublist_a.end, merge_len) is called.
TakeAReturn ==
    /\ pc = "take_a"
    /\ ~TakeTest
    /\ sublist_a' = Sublist(take_start, take_llist)
    /\ take_start' = take_llist
    /\ take_llist' = take_llist
    /\ take_n' = merge_len
    /\ pc' = "take_b"
    /\ UNCHANGED <<inputVars, heapVars, sortVars, sublist_b, resultVars,
                   lenVars, mergeVars, run_a, run_b>>

\* Variant: next_unmerged_cell is set to sublist_a.end, not sublist_b.end.
TakeBReturnRewinds ==
    /\ pc = "take_b"
    /\ ~TakeTest
    /\ sublist_b' = Sublist(take_start, take_llist)
    /\ next_unmerged_cell' = sublist_a.end
    /\ cell_a' = sublist_a.start
    /\ cell_b' = take_start
    /\ m_first_cell' = None
    /\ m_last_cell' = None
    /\ run_a' = SublistCells(sublist_a)
    /\ run_b' = SublistCells(sublist_b')
    /\ pc' = "merge"
    /\ UNCHANGED <<inputVars, heapVars, llist, n, merge_len, last_cell,
                   passes, sublist_a, resultVars, lenVars, takeVars>>

\* take returns sublist_b; next_unmerged_cell moves on; merge is called.
TakeBReturn ==
    /\ pc = "take_b"
    /\ ~TakeTest
    /\ sublist_b' = Sublist(take_start, take_llist)
    /\ next_unmerged_cell' = take_llist
    /\ cell_a' = sublist_a.start
    /\ cell_b' = take_start
    /\ m_first_cell' = None
    /\ m_last_cell' = None
    /\ run_a' = SublistCells(sublist_a)
    /\ run_b' = SublistCells(sublist_b')
    /\ pc' = "merge"
    /\ UNCHANGED <<inputVars, heapVars, llist, n, merge_len, last_cell,
                   passes, sublist_a, resultVars, lenVars, takeVars>>

----------------------------------------------------------------------------
\* merge

MergeTest == cell_a # sublist_a.end \/ cell_b # sublist_b.end

\* The comparison cell_a.value < cell_b.value is evaluated.
Compares == cell_b # sublist_b.end /\ cell_a # sublist_a.end

\* Variant: the comparison is reversed.
LessReversed(x, y) == x > y

\* Variant: ties go to run A.
LessOrEqual(x, y) == x <= y

Less(x, y) == x < y

FromA ==
    IF cell_b = sublist_b.end THEN TRUE
    ELSE cell_a # sublist_a.end /\ Less(value(cell_a), value(cell_b))

\* Variant: the loop body of merge without last_cell.tail = cell.
LinkNoWrite(cell) ==
    /\ m_first_cell' = IF m_first_cell = None THEN cell ELSE m_first_cell
    /\ m_last_cell' = cell
    /\ UNCHANGED heapVars

\* The loop body of merge for the yielded cell.
Link(cell) ==
    /\ m_first_cell' = IF m_first_cell = None THEN cell ELSE m_first_cell
    /\ tail' = IF m_last_cell # None
               THEN [tail EXCEPT ![m_last_cell] = cell] ELSE tail
    /\ writes' = IF m_last_cell # None THEN writes + 1 ELSE writes
    /\ m_last_cell' = cell

MergeYieldA ==
    /\ pc = "merge"
    /\ MergeTest
    /\ FromA
    /\ Link(cell_a)
    /\ cell_a' = tail'[cell_a]
    /\ UNCHANGED <<pc, cell_b, inputVars, sortVars, sublist_a, sublist_b,
                   resultVars, lenVars, takeVars, run_a, run_b>>

MergeYieldB ==
    /\ pc = "merge"
    /\ MergeTest
    /\ ~FromA
    /\ Link(cell_b)
    /\ cell_b' = tail'[cell_b]
    /\ UNCHANGED <<pc, cell_a, inputVars, sortVars, sublist_a, sublist_b,
                   resultVars, lenVars, takeVars, run_a, run_b>>

\* The comparison raises; the exception leaves merge and sort_linked_list.
Fault ==
    /\ pc = "merge"
    /\ Compares
    /\ ~total
    /\ pc' = "faulted"
    /\ UNCHANGED <<inputVars, heapVars, sortVars, sublist_a, sublist_b,
                   resultVars, lenVars, takeVars, mergeVars, run_a, run_b>>

\* Variant: merge returns without last_cell.tail = None.
MergeReturnNoClose ==
    /\ pc = "merge"
    /\ ~MergeTest
    /\ merged_first_cell' = m_first_cell
    /\ merged_last_cell' = m_last_cell
    /\ pc' = "append"
    /\ UNCHANGED <<inputVars, heapVars, sortVars, sublist_a, sublist_b,
                   lenVars, takeVars, mergeVars, run_a, run_b>>

\* merge_sequence is exhausted: the last cell is closed and merge returns.
MergeReturn ==
    /\ pc = "merge"
    /\ ~MergeTest
    /\ tail' = IF m_last_cell # None
               THEN [tail EXCEPT ![m_last_cell] = None] ELSE tail
    /\ writes' = IF m_last_cell # None THEN writes + 1 ELSE writes
    /\ merged_first_cell' = m_first_cell
    /\ merged_last_cell' = m_last_cell
    /\ pc' = "append"
    /\ UNCHANGED <<inputVars, sortVars, sublist_a, sublist_b, lenVars,
                   takeVars, mergeVars, run_a, run_b>>

\* Variant: the merged run is not linked behind last_cell.
AppendMergedNoLink ==
    /\ pc = "append"
    /\ llist' = IF llist = None THEN merged_first_cell ELSE llist
    /\ last_cell' = merged_last_cell
    /\ pc' = "inner"
    /\ UNCHANGED <<inputVars, heapVars, n, merge_len, next_unmerged_cell,
                   passes, sublist_a, sublist_b, resultVars, lenVars,
                   takeVars, mergeVars, run_a, run_b>>

\* The merged run is appended to the list of the next iteration.
AppendMerged ==
    /\ pc = "append"
    /\ IF llist = None
       THEN /\ llist' = merged_first_cell
            /\ UNCHANGED heapVars
       ELSE /\ tail' = [tail EXCEPT ![last_cell] = merged_first_cell]
            /\ writes' = writes + 1
            /\ UNCHANGED llist
    /\ last_cell' = merged_last_cell
    /\ pc' = "inner"
    /\ UNCHANGED <<inputVars, n, merge_len, next_unmerged_cell, passes,
                   sublist_a, sublist_b, resultVars, lenVars, takeVars,
                   mergeVars, run_a, run_b>>

----------------------------------------------------------------------------

Next ==
    \/ LlistLenStep
    \/ LlistLenReturn
    \/ StartPass
    \/ Return
    \/ EndPass
    \/ CallTakeA
    \/ TakeStep
    \/ TakeAReturn
    \/ TakeBReturn
    \/ MergeYieldA
    \/ MergeYieldB
    \/ Fault
    \/ MergeReturn
    \/ AppendMerged

Spec == Init /\ [][Next]_vars

\* The interpreter runs the call until it returns or raises.
FairSpec == Spec /\ WF_vars(Next)

----------------------------------------------------------------------------
\* merge called on its own, on any two disjoint sorted runs.  Run A is the
\* cells 1..la, run B the cells la+1..la+lb, and one more cell lies outside
\* both; a run ends at None, at the outside cell or at the other run's start.

MergeTail(la, lb, ea, eb) ==
    [c \in 1..(la + lb + 1) |->
        IF c < la THEN c + 1
        ELSE IF c = la THEN ea
        ELSE IF c < la + lb THEN c + 1
        ELSE IF c = la + lb THEN eb
        ELSE None]

InitMerge ==
    \E la \in 0..MaxRun, lb \in 0..MaxRun :
    \E ea \in {None, la + lb + 1} \cup (IF lb > 0 THEN {la + 1} ELSE {}),
       eb \in {None, la + lb + 1} \cup (IF la > 0 THEN {1} ELSE {}) :
        /\ seq \in {s \in [1..(la + lb + 1) -> 1..MaxVal] :
                        /\ NonDecreasing([i \in 1..la |-> s[i]])
                        /\ NonDecreasing([i \in 1..lb |-> s[la + i]])}
        /\ total = TRUE
        /\ tail = MergeTail(la, lb, ea, eb)
        /\ sublist_a = Sublist(IF la > 0 THEN 1 ELSE ea, ea)
        /\ sublist_b = Sublist(IF lb > 0 THEN la + 1 ELSE eb, eb)
        /\ run_a = [i \in 1..la |-> i]
        /\ run_b = [i \in 1..lb |-> la + i]
        /\ cell_a = (IF la > 0 THEN 1 ELSE ea)
        /\ cell_b = (IF lb > 0 THEN la + 1 ELSE eb)
        /\ m_first_cell = None
        /\ m_last_cell = None
        /\ pc = "merge"
        /\ llist = None
        /\ len_llist = None
        /\ len_n = 0
        /\ n = 0
        /\ merge_len = 0
        /\ next_unmerged_cell = None
        /\ last_cell = None
        /\ merged_first_cell = None
        /\ merged_last_cell = None
        /\ take_llist = None
        /\ take_n = 0
        /\ take_start = None
        /\ passes = 0
        /\ writes = 0

NextMerge ==
    \/ MergeYieldA
    \/ MergeYieldB
    \/ MergeReturn

SpecMerge == InitMerge /\ [][NextMerge]_vars

----------------------------------------------------------------------------
\* Properties

Returned == pc = "done"

Output == Chain(llist)

\* Every cell reaches None along tail links.
NoCycle == \A c \in Cells : Len(Chain(c)) <= Len(seq)

\* C1: the values read from the sorted list are the reference sort of the
\* input: a permutation of the input in which every adjacent pair a, b has
\* a <= b.
C1_SortedLikeReference ==
    Returned =>
        LET out == from_linked_list(llist)
        IN  /\ out = sorted(seq)
            /\ IsPermutation(out, seq)
            /\ NonDecreasing(out)

C1_Witness ==
    /\ Returned
    /\ Len(seq) >= 4
    /\ ~NonDecreasing(seq)
    /\ \E i, j \in 1..Len(seq) : i # j /\ seq[i] = seq[j]
    /\ from_linked_list(llist) = sorted(seq)

\* C2 as stated: of two cells with equal values, the one that was earlier in
\* the input is earlier in the returned chain.
C2_Stable ==
    Returned =>
        \A i, j \in 1..Len(Output) :
            (i < j /\ value(Output[i]) = value(Output[j])) => Output[i] < Output[j]

\* C2 amended: of two cells with equal values, the one that was LATER in the
\* input is earlier in the returned chain (merge yields run B's cell on a tie).
C2_ReverseStable ==
    Returned =>
        \A i, j \in 1..Len(Output) :
            (i < j /\ value(Output[i]) = value(Output[j])) => Output[i] > Output[j]

C2_Witness ==
    /\ Returned
    /\ seq = <<2, 2, 1>>
    /\ Output = <<3, 2, 1>>

\* C3: the returned chain visits exactly the input cells, each once, and then
\* reaches None; no cell is created or dropped and the values are the input's.
C3_SameCells ==
    Returned =>
        /\ Len(Output) = Len(seq)
        /\ Range(Output) = Cells
        /\ DOMAIN tail = Cells
        /\ (Output # <<>> => tail[Output[Len(Output)]] = None)
        /\ IsPermutation(Values(Output), seq)

C3_Witness ==
    /\ Returned
    /\ Len(seq) = MaxLen
    /\ Range(Output) = Cells
    /\ tail # to_linked_list_tail(seq)

\* C4: on totally ordered values the call eventually returns.
C4_Terminates == total ~> Returned

C4_Witness ==
    /\ Returned
    /\ total
    /\ passes >= 3

\* C5 as stated: after a comparison fault the tail links form no cycle.
C5_NoCycleAfterFault == pc = "faulted" => NoCycle

\* The interrupted merge had yielded a cell of run B and, last, a cell of
\* run A, whose tail still leads through the rest of run A to run B's start.
LastFromAAfterB ==
    /\ cell_b # sublist_b.start
    /\ m_last_cell # None
    /\ tail[m_last_cell] = cell_a

\* C5 amended: after a comparison fault the tail links form no cycle, except
\* when the interrupted merge had already yielded a cell of run B and the cell
\* it yielded last came from run A; then they do form a cycle.
C5_CycleOnlyAfterBThenA == pc = "faulted" => (NoCycle <=> ~LastFromAAfterB)

C5_Witness ==
    /\ pc = "faulted"
    /\ NoCycle
    /\ m_last_cell # None
    /\ passes >= 2

\* C6: a list of fewer than 2 cells is returned as the same head, with no
\* pass made and no tail field written.
C6_ShortListUntouched ==
    (Returned /\ Len(seq) < 2) =>
        /\ llist = to_linked_list_head(seq)
        /\ passes = 0
        /\ writes = 0
        /\ tail = to_linked_list_tail(seq)

C6_Witness ==
    /\ Returned
    /\ Len(seq) = 1
    /\ llist = 1

\* C7: merge of two disjoint sorted runs returns (first, last) such that the
\* chain from first is exactly the cells of both runs, each once, in
\* non-decreasing value order, ends at last and last.tail is None; with one
\* run empty it is the other run in its order; with both empty it is
\* (None, None).
C7_MergeResult ==
    pc = "append" =>
        LET out == Chain(merged_first_cell)
        IN  /\ Len(out) = Len(run_a) + Len(run_b)
            /\ Range(out) = Range(run_a) \cup Range(run_b)
            /\ NonDecreasing(Values(out))
            /\ out # <<>> => /\ merged_first_cell = out[1]
                             /\ merged_last_cell = out[Len(out)]
                             /\ tail[merged_last_cell] = None
            /\ run_a = <<>> => out = run_b
            /\ run_b = <<>> => out = run_a
            /\ (run_a = <<>> /\ run_b = <<>>) =>
                   (merged_first_cell = None /\ merged_last_cell = None)

C7_Witness ==
    /\ pc = "append"
    /\ Len(run_a) = MaxRun
    /\ Len(run_b) = MaxRun
    /\ Chain(merged_first_cell) # run_a \o run_b
    /\ Chain(merged_first_cell) # run_b \o run_a

\* The inner loop's test has just failed: the pass with this merge_len is over.
PassOver == pc = "inner" /\ next_unmerged_cell = None

Min(a, b) == IF a < b THEN a ELSE b

\* C8: at the end of the pass with merge_len = L the list holds all n cells,
\* ends in None and splits into consecutive sorted runs of 2L cells (the last
\* may be shorter); the docstring's example goes through its three lists.
C8_PassInvariant ==
    PassOver =>
        LET out == Output
            w == 2 * merge_len
        IN  /\ Len(out) = n
            /\ Range(out) = Cells
            /\ tail[out[Len(out)]] = None
            /\ \A k \in 0..(n \div w) :
                   NonDecreasing(SubSeq(Values(out), k * w + 1, Min((k + 1) * w, n)))
            /\ (seq = DocExample /\ merge_len = 1) => Values(out) = <<3, 5, 1, 4, 2>>
            /\ (seq = DocExample /\ merge_len = 2) => Values(out) = <<1, 3, 4, 5, 2>>
            /\ (seq = DocExample /\ merge_len = 4) => Values(out) = <<1, 2, 3, 4, 5>>

C8_Witness ==
    /\ PassOver
    /\ seq = DocExample
    /\ merge_len = 2
    /\ Values(Output) = <<1, 3, 4, 5, 2>>

\* C9: for n >= 2, n is the list's length from entry on, the k-th pass runs
\* with merge_len = 2^(k-1) < n, and the call returns after ceil(log2(n))
\* passes at the first merge_len >= n.
C9_PassCount ==
    (pc # "llist_len" /\ Len(seq) >= 2) =>
        /\ n = Len(seq)
        /\ pc \in {"outer", "done"} => merge_len = Pow2(passes)
        /\ pc \notin {"outer", "done"} =>
               (passes >= 1 /\ merge_len = Pow2(passes - 1) /\ merge_len < n)
        /\ Returned => (passes = CeilLog2(n) /\ merge_len >= n)

C9_Witness ==
    /\ Returned
    /\ n = 5
    /\ passes = 3
    /\ merge_len = 8

\* C10: at each test of the inner loop, the chain from llist (ending at
\* last_cell, whose tail is None) and the chain from next_unmerged_cell are
\* disjoint, each ends in None, and together they are the n input cells.
C10_MergedAndUnmergedPartition ==
    pc = "inner" =>
        LET acc == Chain(llist)
            rest == Chain(next_unmerged_cell)
        IN  /\ Range(acc) \cap Range(rest) = {}
            /\ Range(acc) \cup Range(rest) = Cells
            /\ Len(acc) + Len(rest) = n
            /\ llist = None => last_cell = None
            /\ llist # None => (last_cell = acc[Len(acc)] /\ tail[last_cell] = None)

C10_Witness ==
    /\ pc = "inner"
    /\ Len(Chain(llist)) >= 2
    /\ Len(Chain(next_unmerged_cell)) >= 1
    /\ passes >= 2

====
